---- MODULE Spec2Model ----
(***************************************************************************)
(* Model of the web-extraction agent's configuration store                 *)
(* (config_manager.py: AgentConfigManager), its tool lifecycle manager     *)
(* (tool_manager.py: ToolManager) and the lazily initialising request      *)
(* handler (main.py: handler).                                             *)
(*                                                                         *)
(* Python values are modelled as follows: a dict is a function whose       *)
(* DOMAIN is its key set, a list is a sequence, None for an object         *)
(* reference is the id 0, and an exception leaving a call is the name of   *)
(* the exception in the variable raised ("none" when the call returned).   *)
(***************************************************************************)
EXTENDS Integers, Sequences, FiniteSets, TLC

\* ------------------------------------------------------------------ bounds
NumTools == 3
NumDocTools == 2
MaxActiveDoc == 3
MaxMcpObjects == 2
NumHandlers == 2

\* ------------------------------------------------------------ value domains
NamePool == <<"firecrawl", "airbnb", "google_maps", "tool4", "tool5">>
ToolNames == {NamePool[i] : i \in 1..NumTools}
DocToolNames == {NamePool[i] : i \in 1..NumDocTools}
MgrToolNames == {"firecrawl", "airbnb"}
DefaultCommand == "npx -y firecrawl-mcp"
PromptNames == {"default", "custom"}
DefaultTimeout == 30
EmptyEnv == [k \in {} |-> ""]
EmptyDict == [k \in {} |-> 0]

\* ToolConfig(BaseModel): name, command, enabled, environment, timeout, description
ToolConfig(name, command, enabled, environment, timeout) ==
    [name |-> name, command |-> command, enabled |-> enabled,
     environment |-> environment, timeout |-> timeout, description |-> ""]

\* PromptConfig(BaseModel): name, template, enabled, version, description
PromptConfig(name, template) ==
    [name |-> name, template |-> template, enabled |-> TRUE,
     version |-> "1.0", description |-> ""]

\* AgentConfigManager(): every field at its default_factory / default
AgentConfigManager ==
    [tools |-> EmptyDict, prompts |-> EmptyDict, active_tools |-> <<>>,
     active_prompt |-> "default", model_id |-> "openai/gpt-5", debug |-> FALSE]

\* ------------------------------------------------- Python list / dict helpers
\* x in list
InList(l, x) == \E i \in 1..Len(l) : l[i] = x

RECURSIVE IndexOf(_, _, _)
\* list.index(x), searched from position i
IndexOf(l, x, i) ==
    IF i > Len(l) THEN 0 ELSE IF l[i] = x THEN i ELSE IndexOf(l, x, i + 1)

\* list.remove(x): deletes the FIRST occurrence only
ListRemove(l, x) ==
    LET k == IndexOf(l, x, 1)
    IN  SubSeq(l, 1, k - 1) \o SubSeq(l, k + 1, Len(l))

\* d[k] = v
DictSet(d, k, v) == [x \in (DOMAIN d) \cup {k} |-> IF x = k THEN v ELSE d[x]]

\* del d[k]
DictDel(d, k) == [x \in (DOMAIN d) \ {k} |-> d[x]]

\* The result of a call: the store it leaves and the exception it raised.
Ok(s) == [s |-> s, exc |-> "none"]
Raise(s, e) == [s |-> s, exc |-> e]

\* --------------------------------------------- AgentConfigManager mutators
\* mutant of add_tool: appends without the membership test
add_tool_always_append(s, tool) ==
    LET s1 == [s EXCEPT !.tools = DictSet(s.tools, tool.name, tool)]
    IN  IF tool.enabled
        THEN Ok([s1 EXCEPT !.active_tools = Append(s.active_tools, tool.name)])
        ELSE Ok(s1)

add_tool(s, tool) ==
    LET s1 == [s EXCEPT !.tools = DictSet(s.tools, tool.name, tool)]
    IN  IF tool.enabled /\ ~InList(s.active_tools, tool.name)
        THEN Ok([s1 EXCEPT !.active_tools = Append(s.active_tools, tool.name)])
        ELSE Ok(s1)

\* mutant of remove_tool: list.remove without the membership test
remove_tool_unguarded(s, tool_name) ==
    LET s1 == IF tool_name \in DOMAIN s.tools
              THEN [s EXCEPT !.tools = DictDel(s.tools, tool_name)]
              ELSE s
    IN  IF InList(s.active_tools, tool_name)
        THEN Ok([s1 EXCEPT !.active_tools = ListRemove(s.active_tools, tool_name)])
        ELSE Raise(s1, "ValueError")

remove_tool(s, tool_name) ==
    LET s1 == IF tool_name \in DOMAIN s.tools
              THEN [s EXCEPT !.tools = DictDel(s.tools, tool_name)]
              ELSE s
    IN  IF InList(s.active_tools, tool_name)
        THEN Ok([s1 EXCEPT !.active_tools = ListRemove(s.active_tools, tool_name)])
        ELSE Ok(s1)

\* mutant of enable_tool: re-inserts the name at the front of the list
enable_tool_at_front(s, tool_name) ==
    IF tool_name \in DOMAIN s.tools
    THEN LET s1 == [s EXCEPT !.tools[tool_name].enabled = TRUE]
         IN  IF ~InList(s.active_tools, tool_name)
             THEN Ok([s1 EXCEPT !.active_tools = <<tool_name>> \o s.active_tools])
             ELSE Ok(s1)
    ELSE Ok(s)

enable_tool(s, tool_name) ==
    IF tool_name \in DOMAIN s.tools
    THEN LET s1 == [s EXCEPT !.tools[tool_name].enabled = TRUE]
         IN  IF ~InList(s.active_tools, tool_name)
             THEN Ok([s1 EXCEPT !.active_tools = Append(s.active_tools, tool_name)])
             ELSE Ok(s1)
    ELSE Ok(s)

disable_tool(s, tool_name) ==
    LET s1 == IF tool_name \in DOMAIN s.tools
              THEN [s EXCEPT !.tools[tool_name].enabled = FALSE]
              ELSE s
    IN  IF InList(s.active_tools, tool_name)
        THEN Ok([s1 EXCEPT !.active_tools = ListRemove(s.active_tools, tool_name)])
        ELSE Ok(s1)

add_prompt(s, prompt) ==
    Ok([s EXCEPT !.prompts = DictSet(s.prompts, prompt.name, prompt)])

set_active_prompt(s, prompt_name) ==
    IF prompt_name \in DOMAIN s.prompts
    THEN Ok([s EXCEPT !.active_prompt = prompt_name])
    ELSE Ok(s)

\* ----------------------------------------------- AgentConfigManager readers
\* The value of a reader: what it returns and the exception it raised.
RECURSIVE get_active_tools_from(_, _)
\* the list comprehension of get_active_tools, from position i of active_tools
get_active_tools_from(s, i) ==
    IF i > Len(s.active_tools) THEN [val |-> <<>>, exc |-> "none"]
    ELSE LET name == s.active_tools[i]
             rest == get_active_tools_from(s, i + 1)
         IN  IF name \in DOMAIN s.tools /\ s.tools[name].enabled
             THEN [val |-> <<s.tools[name]>> \o rest.val, exc |-> rest.exc]
             ELSE rest

RECURSIVE get_active_tools_unchecked_from(_, _)
\* mutant of the comprehension: self.tools[name] without "name in self.tools"
get_active_tools_unchecked_from(s, i) ==
    IF i > Len(s.active_tools) THEN [val |-> <<>>, exc |-> "none"]
    ELSE LET name == s.active_tools[i]
             rest == get_active_tools_unchecked_from(s, i + 1)
         IN  IF name \notin DOMAIN s.tools THEN [val |-> <<>>, exc |-> "KeyError"]
             ELSE IF s.tools[name].enabled
             THEN [val |-> <<s.tools[name]>> \o rest.val, exc |-> rest.exc]
             ELSE rest

get_active_tools_unchecked(s) == get_active_tools_unchecked_from(s, 1)

get_active_tools(s) == get_active_tools_from(s, 1)

\* mutant of get_active_prompt: self.prompts[self.active_prompt]
get_active_prompt_subscript(s) ==
    IF s.active_prompt \in DOMAIN s.prompts
    THEN [val |-> <<s.prompts[s.active_prompt]>>, exc |-> "none"]
    ELSE [val |-> <<>>, exc |-> "KeyError"]

\* get_active_prompt: self.prompts.get(self.active_prompt), <<>> for None
get_active_prompt(s) ==
    IF s.active_prompt \in DOMAIN s.prompts
    THEN [val |-> <<s.prompts[s.active_prompt]>>, exc |-> "none"]
    ELSE [val |-> <<>>, exc |-> "none"]

\* os.getenv(key, default)
GetEnv(osenv, key, default) == IF key \in DOMAIN osenv THEN osenv[key] ELSE default

\* create_default_config: firecrawl, then airbnb and google_maps when their
\* ENABLE_ variables are set (non-empty), then the prompt "default"
create_default_config(osenv) ==
    LET c1 == add_tool(AgentConfigManager,
                       ToolConfig("firecrawl", DefaultCommand, TRUE,
                                  [k \in {"FIRECRAWL_API_KEY"} |->
                                      GetEnv(osenv, "FIRECRAWL_API_KEY", "")],
                                  DefaultTimeout)).s
        c2 == IF GetEnv(osenv, "ENABLE_AIRBNB_MCP", "") /= ""
              THEN add_tool(c1,
                            ToolConfig("airbnb",
                                       "npx -y @openbnb/mcp-server-airbnb --ignore-robots-txt",
                                       TRUE, EmptyEnv, DefaultTimeout)).s
              ELSE c1
        c3 == IF GetEnv(osenv, "ENABLE_GOOGLE_MAPS_MCP", "") /= ""
              THEN add_tool(c2,
                            ToolConfig("google_maps",
                                       "npx -y @modelcontextprotocol/server-google-maps",
                                       TRUE,
                                       [k \in {"GOOGLE_MAPS_API_KEY"} |->
                                           GetEnv(osenv, "GOOGLE_MAPS_API_KEY", "")],
                                       DefaultTimeout)).s
              ELSE c2
    IN  add_prompt(c3, PromptConfig("default",
                                "You are a helpful AI assistant specializing in web extraction and content analysis.")).s

\* ------------------------------------------- to_dict / from_dict / files
\* A JSON value: what json.dump writes for a str, an int, a bool, a dict and
\* a list, and what json.load gives back.
JStr(x) == [t |-> "string", v |-> x]
JInt(x) == [t |-> "number", v |-> x]
JBool(x) == [t |-> "boolean", v |-> x]
JObj(members) == [t |-> "object", v |-> members]
JArr(items) == [t |-> "array", v |-> items]

\* model_dump of a ToolConfig
ToolConfig_dump(tool) ==
    JObj([k \in {"name", "command", "enabled", "environment", "timeout", "description"} |->
            CASE k = "name" -> JStr(tool.name)
              [] k = "command" -> JStr(tool.command)
              [] k = "enabled" -> JBool(tool.enabled)
              [] k = "environment" ->
                    JObj([e \in DOMAIN tool.environment |-> JStr(tool.environment[e])])
              [] k = "timeout" -> JInt(tool.timeout)
              [] OTHER -> JStr(tool.description)])

\* model_dump of a PromptConfig
PromptConfig_dump(prompt) ==
    JObj([k \in {"name", "template", "enabled", "version", "description"} |->
            CASE k = "name" -> JStr(prompt.name)
              [] k = "template" -> JStr(prompt.template)
              [] k = "enabled" -> JBool(prompt.enabled)
              [] k = "version" -> JStr(prompt.version)
              [] OTHER -> JStr(prompt.description)])

\* mutant of to_dict: model_dump(exclude={"active_tools"})
to_dict_without_active_tools(s) ==
    JObj([k \in {"tools", "prompts", "active_prompt", "model_id", "debug"} |->
            CASE k = "tools" -> JObj([n \in DOMAIN s.tools |-> ToolConfig_dump(s.tools[n])])
              [] k = "prompts" ->
                    JObj([n \in DOMAIN s.prompts |-> PromptConfig_dump(s.prompts[n])])
              [] k = "active_prompt" -> JStr(s.active_prompt)
              [] k = "model_id" -> JStr(s.model_id)
              [] OTHER -> JBool(s.debug)])

\* to_dict: self.model_dump(), every field of the store and of its nested
\* models
to_dict(s) ==
    JObj([k \in {"tools", "prompts", "active_tools", "active_prompt", "model_id", "debug"} |->
            CASE k = "tools" -> JObj([n \in DOMAIN s.tools |-> ToolConfig_dump(s.tools[n])])
              [] k = "prompts" ->
                    JObj([n \in DOMAIN s.prompts |-> PromptConfig_dump(s.prompts[n])])
              [] k = "active_tools" ->
                    JArr([i \in 1..Len(s.active_tools) |-> JStr(s.active_tools[i])])
              [] k = "active_prompt" -> JStr(s.active_prompt)
              [] k = "model_id" -> JStr(s.model_id)
              [] OTHER -> JBool(s.debug)])

\* mutant of Field: every field declared with Field(...), none has a default
Field_all_required(members, k, type, required, default) ==
    IF k \notin DOMAIN members THEN [ok |-> FALSE, val |-> default]
    ELSE IF members[k].t = type THEN [ok |-> TRUE, val |-> members[k].v]
    ELSE [ok |-> FALSE, val |-> default]

\* a keyword argument of a model constructor: the member k of the dict when
\* it is there and of the field's type, the field's default when the key is
\* missing; ok is FALSE (a ValidationError) for a value of another type or a
\* missing required field
Field(members, k, type, required, default) ==
    IF k \notin DOMAIN members THEN [ok |-> ~required, val |-> default]
    ELSE IF members[k].t = type THEN [ok |-> TRUE, val |-> members[k].v]
    ELSE [ok |-> FALSE, val |-> default]

\* ToolConfig(**v)
ToolConfig_from(v) ==
    LET name == Field(v, "name", "string", TRUE, "")
        command == Field(v, "command", "string", TRUE, "")
        enabled == Field(v, "enabled", "boolean", FALSE, TRUE)
        environment == Field(v, "environment", "object", FALSE, EmptyEnv)
        timeout == Field(v, "timeout", "number", FALSE, DefaultTimeout)
        description == Field(v, "description", "string", FALSE, "")
    IN  [ok |-> /\ name.ok /\ command.ok /\ enabled.ok /\ environment.ok
                /\ timeout.ok /\ description.ok
                /\ \A e \in DOMAIN environment.val : environment.val[e].t = "string",
         val |-> [name |-> name.val, command |-> command.val, enabled |-> enabled.val,
                  environment |-> [e \in DOMAIN environment.val |-> environment.val[e].v],
                  timeout |-> timeout.val, description |-> description.val]]

\* PromptConfig(**v)
PromptConfig_from(v) ==
    LET name == Field(v, "name", "string", TRUE, "")
        template == Field(v, "template", "string", TRUE, "")
        enabled == Field(v, "enabled", "boolean", FALSE, TRUE)
        version == Field(v, "version", "string", FALSE, "1.0")
        description == Field(v, "description", "string", FALSE, "")
    IN  [ok |-> name.ok /\ template.ok /\ enabled.ok /\ version.ok /\ description.ok,
         val |-> [name |-> name.val, template |-> template.val, enabled |-> enabled.val,
                  version |-> version.val, description |-> description.val]]

\* from_dict: the nested dicts of "tools" and "prompts" become models, then
\* cls(**data); keys that name no field are ignored
from_dict(data) ==
    LET tools == Field(data.v, "tools", "object", FALSE, EmptyDict)
        prompts == Field(data.v, "prompts", "object", FALSE, EmptyDict)
        active_tools == Field(data.v, "active_tools", "array", FALSE, <<>>)
        active_prompt == Field(data.v, "active_prompt", "string", FALSE, "default")
        model_id == Field(data.v, "model_id", "string", FALSE, "openai/gpt-5")
        debug == Field(data.v, "debug", "boolean", FALSE, FALSE)
        ok == /\ tools.ok /\ prompts.ok /\ active_tools.ok /\ active_prompt.ok
              /\ model_id.ok /\ debug.ok
              /\ \A n \in DOMAIN tools.val :
                    tools.val[n].t = "object" /\ ToolConfig_from(tools.val[n].v).ok
              /\ \A n \in DOMAIN prompts.val :
                    prompts.val[n].t = "object" /\ PromptConfig_from(prompts.val[n].v).ok
              /\ \A i \in 1..Len(active_tools.val) : active_tools.val[i].t = "string"
    IN  IF ~ok THEN [val |-> AgentConfigManager, exc |-> "ValidationError"]
        ELSE [val |-> [tools |-> [n \in DOMAIN tools.val |->
                                     ToolConfig_from(tools.val[n].v).val],
                       prompts |-> [n \in DOMAIN prompts.val |->
                                       PromptConfig_from(prompts.val[n].v).val],
                       active_tools |-> [i \in 1..Len(active_tools.val) |->
                                            active_tools.val[i].v],
                       active_prompt |-> active_prompt.val,
                       model_id |-> model_id.val,
                       debug |-> debug.val],
              exc |-> "none"]

\* A file: whether it exists, whether json.load can read it, the JSON value
\* it holds.
NoFile == [exists |-> FALSE, valid |-> FALSE, doc |-> JObj(EmptyDict)]
BadFile == [exists |-> TRUE, valid |-> FALSE, doc |-> JObj(EmptyDict)]
EmptyDocFile == [exists |-> TRUE, valid |-> TRUE, doc |-> JObj(EmptyDict)]
FileOf(s) == [exists |-> TRUE, valid |-> TRUE, doc |-> to_dict(s)]

\* save_to_file: json.dump(self.to_dict(), f); io_out "raises" is an OSError
\* of open()
save_to_file(s, file, io_out) ==
    IF io_out = "raises" THEN [file |-> file, exc |-> "OSError"]
    ELSE [file |-> FileOf(s), exc |-> "none"]

\* load_from_file: cls() without a file, else from_dict(json.load(f))
load_from_file(file) ==
    IF ~file.exists THEN [val |-> AgentConfigManager, exc |-> "none"]
    ELSE IF ~file.valid THEN [val |-> AgentConfigManager, exc |-> "JSONDecodeError"]
    ELSE from_dict(file.doc)

\* ------------------------------------------------------------ ToolManager
\* ToolManager.__init__: mcp_tools None (0, else the number of the
\* MultiMCPTools object), mem0_tools None (0, else 1), _is_connected False
ToolManager == [mcp_tools |-> 0, mem0_tools |-> 0, is_connected |-> FALSE]

\* a MultiMCPTools object right after its constructor returned
NewMcpObject == [state |-> "built"]

\* `env or dict(os.environ)`: None and {} are both falsy
NoneEnv == EmptyEnv

\* bool(os.getenv("MEM0_API_KEY"))
HasMem0Key(osenv) == "MEM0_API_KEY" \in DOMAIN osenv /\ osenv["MEM0_API_KEY"] /= ""

\* [tool.command for tool in enabled_tools if tool.command]
CommandsOf(enabled_tools) ==
    LET kept == SelectSeq(enabled_tools, LAMBDA tool : tool.command /= "")
    IN  [i \in 1..Len(kept) |-> kept[i].command]

RECURSIVE MaxTimeoutFrom(_, _)
\* max(tool.timeout for tool in enabled_tools), from position i
MaxTimeoutFrom(enabled_tools, i) ==
    IF i = Len(enabled_tools) THEN enabled_tools[i].timeout
    ELSE LET rest == MaxTimeoutFrom(enabled_tools, i + 1)
         IN  IF enabled_tools[i].timeout >= rest THEN enabled_tools[i].timeout ELSE rest

\* what one call did to its collaborators: the branch that returned early,
\* the outcome of the MultiMCPTools step, of the Mem0Tools step and of
\* close(), and the arguments of each MultiMCPTools(...) constructor call
NoEffects == [early |-> "-", mcp |-> "-", mem0 |-> "-", close |-> "-", args |-> <<>>]

\* The result of a ToolManager call: the manager and the MultiMCPTools
\* objects it leaves, the exception it raised, where it stands, what it did.
MgrResult(m, objs, exc, stage, did) ==
    [m |-> m, objs |-> objs, exc |-> exc, stage |-> stage, did |-> did]

\* mutant of initialize: no early return when no tool is active
initialize_begin_no_empty_return(m, s, objs, env, osenv, mcp_out) ==
    IF m.is_connected
    THEN MgrResult(m, objs, "none", "return", [NoEffects EXCEPT !.early = "connected"])
    ELSE LET env1 == IF env = NoneEnv THEN osenv ELSE env
             enabled_tools == get_active_tools(s).val
             commands == CommandsOf(enabled_tools)
             args == [commands |-> commands, env |-> env1,
                      timeout_seconds |-> MaxTimeoutFrom(enabled_tools, 1)]
         IN  IF commands = <<>>
             THEN MgrResult(m, objs, "none", "mem0", NoEffects)
             ELSE IF mcp_out = "build_raises"
             THEN MgrResult(m, objs, "none", "mem0",
                            [NoEffects EXCEPT !.mcp = "build_raised", !.args = <<args>>])
             ELSE MgrResult([m EXCEPT !.mcp_tools = Len(objs) + 1],
                            Append(objs, NewMcpObject), "none", "connect",
                            [NoEffects EXCEPT !.mcp = "built", !.args = <<args>>])

\* mutant of initialize: "No tools configured" marks the manager connected
initialize_begin_empty_connects(m, s, objs, env, osenv, mcp_out) ==
    IF m.is_connected
    THEN MgrResult(m, objs, "none", "return", [NoEffects EXCEPT !.early = "connected"])
    ELSE LET env1 == IF env = NoneEnv THEN osenv ELSE env
             enabled_tools == get_active_tools(s).val
             commands == CommandsOf(enabled_tools)
             args == [commands |-> commands, env |-> env1,
                      timeout_seconds |-> MaxTimeoutFrom(enabled_tools, 1)]
         IN  IF enabled_tools = <<>>
             THEN MgrResult([m EXCEPT !.is_connected = TRUE], objs, "none", "return",
                            [NoEffects EXCEPT !.early = "no_tools"])
             ELSE IF commands = <<>>
             THEN MgrResult(m, objs, "none", "mem0", NoEffects)
             ELSE IF mcp_out = "build_raises"
             THEN MgrResult(m, objs, "none", "mem0",
                            [NoEffects EXCEPT !.mcp = "build_raised", !.args = <<args>>])
             ELSE MgrResult([m EXCEPT !.mcp_tools = Len(objs) + 1],
                            Append(objs, NewMcpObject), "none", "connect",
                            [NoEffects EXCEPT !.mcp = "built", !.args = <<args>>])

\* initialize, lines 31-50: the two early returns, then the MultiMCPTools
\* constructor; mcp_out is what the constructor and connect() will do
initialize_begin(m, s, objs, env, osenv, mcp_out) ==
    IF m.is_connected
    THEN MgrResult(m, objs, "none", "return", [NoEffects EXCEPT !.early = "connected"])
    ELSE LET env1 == IF env = NoneEnv THEN osenv ELSE env
             enabled_tools == get_active_tools(s).val
             commands == CommandsOf(enabled_tools)
             args == [commands |-> commands, env |-> env1,
                      timeout_seconds |-> MaxTimeoutFrom(enabled_tools, 1)]
         IN  IF enabled_tools = <<>>
             THEN MgrResult(m, objs, "none", "return",
                            [NoEffects EXCEPT !.early = "no_tools"])
             ELSE IF commands = <<>>
             THEN MgrResult(m, objs, "none", "mem0", NoEffects)
             ELSE IF mcp_out = "build_raises"
             THEN MgrResult(m, objs, "none", "mem0",
                            [NoEffects EXCEPT !.mcp = "build_raised", !.args = <<args>>])
             ELSE MgrResult([m EXCEPT !.mcp_tools = Len(objs) + 1],
                            Append(objs, NewMcpObject), "none", "connect",
                            [NoEffects EXCEPT !.mcp = "built", !.args = <<args>>])

\* mutant of initialize: the Exception of connect() is not caught
initialize_connect_propagates(r, mcp_out) ==
    IF mcp_out = "connect_raises"
    THEN [r EXCEPT !.stage = "return", !.exc = "Exception", !.did.mcp = "connect_raised"]
    ELSE [r EXCEPT !.stage = "mem0", !.did.mcp = "connected",
                   !.objs[r.m.mcp_tools].state = "connected"]

\* initialize, lines 51-54: await self.mcp_tools.connect(); an Exception is
\* caught and printed
initialize_connect(r, mcp_out) ==
    IF mcp_out = "connect_raises"
    THEN [r EXCEPT !.stage = "mem0", !.did.mcp = "connect_raised"]
    ELSE [r EXCEPT !.stage = "mem0", !.did.mcp = "connected",
                   !.objs[r.m.mcp_tools].state = "connected"]

\* initialize, lines 56-62: Mem0Tools(api_key=...) outside any try, then
\* _is_connected = True
initialize_finish(r, osenv, mem0_out) ==
    IF HasMem0Key(osenv)
    THEN IF mem0_out = "raises"
         THEN [r EXCEPT !.stage = "return", !.exc = "Exception", !.did.mem0 = "raised"]
         ELSE [r EXCEPT !.stage = "return", !.did.mem0 = "built",
                        !.m.mem0_tools = 1, !.m.is_connected = TRUE]
    ELSE [r EXCEPT !.stage = "return", !.did.mem0 = "no_key", !.m.is_connected = TRUE]

\* the stages of initialize run from r to its return
RunInitialize(r, osenv, out) ==
    LET r2 == IF r.stage = "connect" THEN initialize_connect(r, out.mcp) ELSE r
    IN  IF r2.stage = "mem0" THEN initialize_finish(r2, osenv, out.mem0) ELSE r2

\* ToolManager.initialize(env), start to return, with no other task
\* running at its await
initialize(m, s, objs, env, osenv, out) ==
    RunInitialize(initialize_begin(m, s, objs, env, osenv, out.mcp), osenv, out)

\* mutant of shutdown: the Exception of close() is not caught
shutdown_propagates(m, objs, close_out) ==
    IF m.mcp_tools /= 0 /\ close_out = "raises"
    THEN MgrResult(m, objs, "Exception", "return",
                   [NoEffects EXCEPT !.close = "raised"])
    ELSE IF m.mcp_tools /= 0
    THEN MgrResult([m EXCEPT !.is_connected = FALSE],
                   [objs EXCEPT ![m.mcp_tools].state = "closed"],
                   "none", "return", [NoEffects EXCEPT !.close = "closed"])
    ELSE MgrResult([m EXCEPT !.is_connected = FALSE], objs, "none", "return", NoEffects)

\* ToolManager.shutdown: close() when mcp_tools is set, its Exception caught
\* and printed; then _is_connected = False.  Neither handle is reset.
shutdown(m, objs, close_out) ==
    IF m.mcp_tools /= 0
    THEN MgrResult([m EXCEPT !.is_connected = FALSE],
                   [objs EXCEPT ![m.mcp_tools].state =
                                    IF close_out = "ok" THEN "closed" ELSE @],
                   "none", "return",
                   [NoEffects EXCEPT !.close =
                        IF close_out = "ok" THEN "closed" ELSE "raised"])
    ELSE MgrResult([m EXCEPT !.is_connected = FALSE], objs, "none", "return", NoEffects)

\* ToolManager.reconnect: shutdown when connected, then initialize() with
\* no env argument
reconnect(m, s, objs, osenv, out) ==
    LET r1 == IF m.is_connected THEN shutdown(m, objs, out.close)
              ELSE MgrResult(m, objs, "none", "return", NoEffects)
        r2 == initialize(r1.m, s, r1.objs, NoneEnv, osenv, out)
    IN  [r2 EXCEPT !.did.close = r1.did.close]

\* ToolManager.get_tools_list
get_tools_list(m) ==
    (IF m.mcp_tools /= 0 THEN <<[kind |-> "MultiMCPTools", id |-> m.mcp_tools]>> ELSE <<>>)
    \o (IF m.mem0_tools /= 0 THEN <<[kind |-> "Mem0Tools", id |-> m.mem0_tools]>> ELSE <<>>)

\* ToolManager.is_connected
is_connected(m) == m.is_connected

\* ------------------------------------------------------------------ state
VARIABLES
    config_manager,   \* the AgentConfigManager instance (main.config_manager / ToolManager.config)
    tool_manager,     \* the ToolManager instance: [mcp_tools, mem0_tools, is_connected]
    mcp_objects,      \* every MultiMCPTools object constructed so far: [state]
    os_environ,       \* os.environ of the process
    main_globals,     \* main.py globals: is config_manager / tool_manager not None
    agent,            \* main.agent: <<>> for None, else <<the Agent object>>
    initialized,      \* main._initialized
    init_lock,        \* main._init_lock: the handler holding it, 0 when free
    pc,               \* where each handler invocation stands
    runs,             \* how often each initialisation step of handler was entered
    config_file,      \* config.json beside main.py: [exists, valid, doc]
    main_proc,        \* main(): where it stands, api_key, mem0_api_key, the base config
    last,             \* the call that produced this state: [op, arg, follows, did]
    raised,           \* exception that left the last call, "none" if it returned
    returned          \* value the last call returned (<<>> for None)

storeVars == <<config_manager>>
mgrVars == <<tool_manager, mcp_objects, os_environ>>
mainVars == <<main_globals, agent, initialized, init_lock, pc, runs, config_file, main_proc>>
callVars == <<last, raised, returned>>
vars == <<config_manager, tool_manager, mcp_objects, os_environ, main_globals, agent,
          initialized, init_lock, pc, runs, config_file, main_proc, last, raised,
          returned>>

\* The record of a call: its name, its argument (a tool or prompt name, ""
\* without one), the name of the call before it when that was on the same
\* name, and what it did to the collaborators.
CallDid(op, arg, did) ==
    [op |-> op, arg |-> arg,
     follows |-> IF arg /= "" /\ last.arg = arg THEN last.op ELSE "",
     did |-> did]

Call(op, arg) == CallDid(op, arg, NoEffects)

\* A mutator call on the store: its result becomes the state.
StoreCall(op, arg, r) ==
    /\ config_manager' = r.s
    /\ raised' = r.exc
    /\ returned' = <<>>
    /\ last' = Call(op, arg)
    /\ UNCHANGED <<mgrVars, mainVars>>

\* ------------------------------------------------------------ store actions
\* tool definitions handed to add_tool: the defaults of ToolConfig for the
\* environment and the timeout, any name of N and either enabled flag
ToolInputs(N) ==
    {ToolConfig(n, DefaultCommand, e, EmptyEnv, DefaultTimeout) :
        n \in N, e \in BOOLEAN}

PromptInputs == {PromptConfig(n, "You are a helpful AI assistant") : n \in PromptNames}

AddTool(tool) ==
    LET r == add_tool(config_manager, tool) IN StoreCall("add_tool", tool.name, r)

RemoveTool(n) ==
    LET r == remove_tool(config_manager, n) IN StoreCall("remove_tool", n, r)

EnableTool(n) ==
    LET r == enable_tool(config_manager, n) IN StoreCall("enable_tool", n, r)

DisableTool(n) ==
    LET r == disable_tool(config_manager, n) IN StoreCall("disable_tool", n, r)

AddPrompt(p) ==
    LET r == add_prompt(config_manager, p) IN StoreCall("add_prompt", p.name, r)

SetActivePrompt(n) ==
    LET r == set_active_prompt(config_manager, n)
    IN  StoreCall("set_active_prompt", n, r)

GetActiveTools ==
    LET r == get_active_tools(config_manager)
    IN  /\ returned' = r.val
        /\ raised' = r.exc
        /\ last' = Call("get_active_tools", "")
        /\ UNCHANGED <<storeVars, mgrVars, mainVars>>

GetActivePrompt ==
    LET r == get_active_prompt(config_manager)
    IN  /\ returned' = r.val
        /\ raised' = r.exc
        /\ last' = Call("get_active_prompt", "")
        /\ UNCHANGED <<storeVars, mgrVars, mainVars>>

StoreNext ==
    \/ \E tool \in ToolInputs(ToolNames) : AddTool(tool)
    \/ \E n \in ToolNames : RemoveTool(n)
    \/ \E n \in ToolNames : EnableTool(n)
    \/ \E n \in ToolNames : DisableTool(n)
    \/ \E p \in PromptInputs : AddPrompt(p)
    \/ \E n \in PromptNames : SetActivePrompt(n)
    \/ GetActiveTools
    \/ GetActivePrompt

CallInit ==
    /\ last = [op |-> "init", arg |-> "", follows |-> "", did |-> NoEffects]
    /\ raised = "none"
    /\ returned = <<>>

\* os.environ with and without the memory-tool credential
OsEnvirons ==
    {[k \in {"PATH"} |-> "/usr/bin"],
     [k \in {"PATH", "MEM0_API_KEY"} |-> IF k = "PATH" THEN "/usr/bin" ELSE "m0-key"]}

\* os.environ of the serving process: as above, or with the variables that
\* create_default_config reads
HandlerEnvirons ==
    OsEnvirons \cup
    {[k \in {"PATH", "MEM0_API_KEY", "FIRECRAWL_API_KEY", "ENABLE_AIRBNB_MCP"} |->
         CASE k = "PATH" -> "/usr/bin"
           [] k = "MEM0_API_KEY" -> "m0-key"
           [] k = "FIRECRAWL_API_KEY" -> "fc-key"
           [] OTHER -> "true"]}

\* main() before it is called: model_name, api_key and mem0_api_key are None
\* (the empty string here: lines 213 and 215 only test them for truth), the
\* base configuration is not read
MainNotStarted == [pc |-> "import", api_key |-> "", mem0_api_key |-> "", config |-> FALSE]

\* main() inside bindufy(config, handler)
MainServing ==
    [pc |-> "serving", api_key |-> "sk-or-key", mem0_api_key |-> "m0-key", config |-> TRUE]

\* the handler invocations of one run of the server
Handlers == 1..NumHandlers

\* main.py at import: every global None, _initialized False, the lock free,
\* no handler invocation yet
MainInit ==
    /\ main_globals = [config_manager |-> FALSE, tool_manager |-> FALSE]
    /\ agent = <<>>
    /\ initialized = FALSE
    /\ init_lock = 0
    /\ pc = [h \in Handlers |-> "start"]
    /\ runs = [initialize_config |-> 0, initialize_tools |-> 0, initialize_agent |-> 0]
    /\ config_file = NoFile
    /\ main_proc = MainNotStarted

\* a ToolManager just constructed, no MultiMCPTools object yet
MgrInit(environs) ==
    /\ tool_manager = ToolManager
    /\ mcp_objects = <<>>
    /\ os_environ \in environs
    /\ MainInit

\* An empty store: AgentConfigManager() as create_default_config starts from.
StoreInit ==
    /\ config_manager = AgentConfigManager
    /\ MgrInit({[k \in {"PATH"} |-> "/usr/bin"]})
    /\ CallInit

SpecStore == StoreInit /\ [][StoreNext]_vars

\* -------------------------------------------------- a store loaded from a file
RECURSIVE SeqsUpTo(_, _)
\* every list over S of length at most n
SeqsUpTo(S, n) ==
    IF n = 0 THEN {<<>>}
    ELSE LET shorter == SeqsUpTo(S, n - 1)
         IN  shorter \cup {Append(q, x) : q \in shorter, x \in S}

\* the tools object of a document: any subset of the names, each entry with
\* either value of enabled
LoadedTools ==
    UNION {[K -> {ToolConfig("", DefaultCommand, e, EmptyEnv, DefaultTimeout) :
                    e \in BOOLEAN}] : K \in SUBSET DocToolNames}

\* entries carry their own key as the name
Named(d) == [k \in DOMAIN d |-> [d[k] EXCEPT !.name = k]]

LoadedPrompts ==
    {[k \in K |-> PromptConfig(k, "You are a helpful AI assistant")] :
        K \in SUBSET PromptNames}

\* load_from_file / from_dict of a document: active_tools is any list of
\* names (stale and repeated names included), active_prompt any name
LoadedStores ==
    {[tools |-> Named(t), prompts |-> p, active_tools |-> a, active_prompt |-> ap,
      model_id |-> "openai/gpt-5", debug |-> FALSE] :
        t \in LoadedTools, p \in LoadedPrompts,
        a \in SeqsUpTo(DocToolNames, MaxActiveDoc), ap \in PromptNames}

LoadedInit ==
    /\ config_manager \in LoadedStores
    /\ MgrInit({[k \in {"PATH"} |-> "/usr/bin"]})
    /\ CallInit

LoadedNext ==
    \/ \E tool \in ToolInputs(DocToolNames) : AddTool(tool)
    \/ \E n \in DocToolNames : RemoveTool(n)
    \/ \E n \in DocToolNames : EnableTool(n)
    \/ \E n \in DocToolNames : DisableTool(n)
    \/ \E p \in PromptInputs : AddPrompt(p)
    \/ \E n \in PromptNames : SetActivePrompt(n)
    \/ GetActiveTools
    \/ GetActivePrompt

SpecLoaded == LoadedInit /\ [][LoadedNext]_vars

\* ------------------------------------------ a store saved to and loaded from a file
\* the tools of a populated store: any subset of the names, each tool either
\* with the defaults of ToolConfig or disabled with an environment, a longer
\* timeout and a description
PersistTools ==
    UNION {[K -> {ToolConfig("", DefaultCommand, TRUE, EmptyEnv, DefaultTimeout),
                  [ToolConfig("", "npx -y @openbnb/mcp-server-airbnb --ignore-robots-txt",
                              FALSE, [k \in {"API_KEY"} |-> "secret"], 60)
                      EXCEPT !.description = "Airbnb property search and information"]}] :
              K \in SUBSET MgrToolNames}

\* populated stores: tools, prompts, an ordered active_tools (stale and
\* repeated names included), active_prompt, model_id and debug all vary
PersistStores ==
    {[tools |-> Named(t), prompts |-> p, active_tools |-> a, active_prompt |-> ap,
      model_id |-> mid, debug |-> dbg] :
        t \in PersistTools, p \in LoadedPrompts, a \in SeqsUpTo(MgrToolNames, 2),
        ap \in PromptNames, mid \in {"openai/gpt-5", "openai/gpt-4o"}, dbg \in BOOLEAN}

\* config_manager.save_to_file("config.json")
SaveToFile(io_out) ==
    LET w == save_to_file(config_manager, config_file, io_out)
    IN  /\ config_file' = w.file
        /\ raised' = w.exc
        /\ returned' = <<>>
        /\ last' = Call("save_to_file", "config.json")
        /\ UNCHANGED <<storeVars, mgrVars, main_globals, agent, initialized, init_lock,
                       pc, runs, main_proc>>

\* config_manager = AgentConfigManager.load_from_file("config.json")
LoadFromFile ==
    LET r == load_from_file(config_file)
    IN  /\ config_manager' = IF r.exc = "none" THEN r.val ELSE config_manager
        /\ raised' = r.exc
        /\ returned' = <<>>
        /\ last' = Call("load_from_file", "config.json")
        /\ UNCHANGED <<mgrVars, mainVars>>

PersistInit ==
    /\ config_manager \in PersistStores
    /\ MgrInit({[k \in {"PATH"} |-> "/usr/bin"]})
    /\ CallInit

PersistNext ==
    \/ \E io_out \in {"ok", "raises"} : SaveToFile(io_out)
    \/ LoadFromFile
    \/ \E n \in MgrToolNames : DisableTool(n)

SpecPersist == PersistInit /\ [][PersistNext]_vars

\* --------------------------------- documents that leave optional fields out
Restrict(f, K) == [k \in K |-> f[k]]

\* a tool entry with every field written, none at its default
FullToolEntry ==
    [name |-> JStr("firecrawl"), command |-> JStr(DefaultCommand), enabled |-> JBool(FALSE),
     environment |-> JObj([k \in {"API_KEY"} |-> JStr("secret")]), timeout |-> JInt(60),
     description |-> JStr("Web scraping")]

\* tool entries: name and command, and any of the optional fields
DocToolEntries ==
    {JObj(Restrict(FullToolEntry, {"name", "command"} \cup F)) :
        F \in SUBSET {"enabled", "environment", "timeout", "description"}}

\* a prompt entry with every field written, none at its default
FullPromptEntry ==
    [name |-> JStr("custom"), template |-> JStr("Extract the page"), enabled |-> JBool(FALSE),
     version |-> JStr("2.0"), description |-> JStr("Extraction prompt")]

\* prompt entries: name and template, and any of the optional fields
DocPromptEntries ==
    {JObj(Restrict(FullPromptEntry, {"name", "template"} \cup F)) :
        F \in SUBSET {"enabled", "version", "description"}}

\* a document with every key of the store and one key that names no field
FullDocument(tool, prompt) ==
    [tools |-> JObj([n \in {"firecrawl"} |-> tool]),
     prompts |-> JObj([n \in {"custom"} |-> prompt]),
     active_tools |-> JArr(<<JStr("firecrawl")>>),
     active_prompt |-> JStr("custom"),
     model_id |-> JStr("openai/gpt-4o"),
     debug |-> JBool(TRUE),
     theme |-> JStr("dark")]

\* what json.load can give: any subset of the top-level keys
Documents ==
    {JObj(Restrict(FullDocument(tool, prompt), K)) :
        tool \in DocToolEntries, prompt \in DocPromptEntries,
        K \in SUBSET {"tools", "prompts", "active_tools", "active_prompt", "model_id",
                      "debug", "theme"}}

DocumentInit ==
    /\ config_manager = AgentConfigManager
    /\ tool_manager = ToolManager
    /\ mcp_objects = <<>>
    /\ os_environ = [k \in {"PATH"} |-> "/usr/bin"]
    /\ main_globals = [config_manager |-> FALSE, tool_manager |-> FALSE]
    /\ agent = <<>>
    /\ initialized = FALSE
    /\ init_lock = 0
    /\ pc = [h \in Handlers |-> "start"]
    /\ runs = [initialize_config |-> 0, initialize_tools |-> 0, initialize_agent |-> 0]
    /\ config_file \in {[exists |-> TRUE, valid |-> TRUE, doc |-> d] : d \in Documents}
    /\ main_proc = MainNotStarted
    /\ CallInit

DocumentNext ==
    \/ LoadFromFile
    \/ \E io_out \in {"ok", "raises"} : SaveToFile(io_out)

SpecDocument == DocumentInit /\ [][DocumentNext]_vars

\* -------------------------------------------------- ToolManager actions
\* ToolManager.add_tool: delegates to the store, then only prints
ToolManager_add_tool(m, s, tool) == [m |-> m, r |-> add_tool(s, tool)]

\* mutant of ToolManager.enable_tool: drops the connection so that the next
\* initialize picks the tool up
ToolManager_enable_tool_disconnects(m, s, tool_name) ==
    [m |-> [m EXCEPT !.is_connected = FALSE], r |-> enable_tool(s, tool_name)]

\* ToolManager.enable_tool: delegates to the store, then only prints
ToolManager_enable_tool(m, s, tool_name) == [m |-> m, r |-> enable_tool(s, tool_name)]

\* ToolManager.disable_tool: delegates to the store
ToolManager_disable_tool(m, s, tool_name) == [m |-> m, r |-> disable_tool(s, tool_name)]

\* tool definitions handed to ToolManager.add_tool: "firecrawl" as
\* create_default_config defines it (default timeout, an environment), every
\* other name with the defaults or with an empty command and a longer timeout
MgrToolInputs ==
    {ToolConfig(n, c.command, e, c.environment, c.timeout) :
        n \in MgrToolNames \ {"firecrawl"}, e \in BOOLEAN,
        c \in {[command |-> DefaultCommand, environment |-> EmptyEnv,
                timeout |-> DefaultTimeout],
               [command |-> "", environment |-> EmptyEnv, timeout |-> 60]}}
    \cup
    {ToolConfig("firecrawl", DefaultCommand, e,
                [k \in {"FIRECRAWL_API_KEY"} |-> "fc-key"], DefaultTimeout) :
        e \in BOOLEAN}

\* the env argument of initialize: None, or a dict of the caller's
EnvInputs == {NoneEnv, [k \in {"PATH"} |-> "/opt/tools/bin"]}

\* what the collaborators do during one call: the MultiMCPTools constructor
\* and connect(), the Mem0Tools constructor, close()
McpOutcomes == {"ok", "build_raises", "connect_raises"}
Mem0Outcomes == {"ok", "raises"}
CloseOutcomes == {"ok", "raises"}
Outcomes(M, Z, C) == [mcp : M, mem0 : Z, close : C]

\* A call on the ToolManager: its result becomes the state.
MgrCall(op, r) ==
    /\ Len(r.objs) <= MaxMcpObjects
    /\ tool_manager' = r.m
    /\ mcp_objects' = r.objs
    /\ raised' = r.exc
    /\ returned' = <<>>
    /\ last' = CallDid(op, "", r.did)
    /\ UNCHANGED <<config_manager, os_environ, mainVars>>

\* A call on the ToolManager that delegates to the store.
MgrStoreCall(op, arg, d) ==
    /\ tool_manager' = d.m
    /\ config_manager' = d.r.s
    /\ raised' = d.r.exc
    /\ returned' = <<>>
    /\ last' = Call(op, arg)
    /\ UNCHANGED <<mcp_objects, os_environ, mainVars>>

Initialize(env, out) ==
    LET r == initialize(tool_manager, config_manager, mcp_objects, env, os_environ, out)
    IN  MgrCall("initialize", r)

Shutdown(out) ==
    LET r == shutdown(tool_manager, mcp_objects, out.close)
    IN  MgrCall("shutdown", r)

Reconnect(out) ==
    LET r == reconnect(tool_manager, config_manager, mcp_objects, os_environ, out)
    IN  MgrCall("reconnect", r)

MgrAddTool(tool) ==
    LET d == ToolManager_add_tool(tool_manager, config_manager, tool)
    IN  MgrStoreCall("add_tool", tool.name, d)

MgrEnableTool(n) ==
    LET d == ToolManager_enable_tool(tool_manager, config_manager, n)
    IN  MgrStoreCall("enable_tool", n, d)

MgrDisableTool(n) ==
    LET d == ToolManager_disable_tool(tool_manager, config_manager, n)
    IN  MgrStoreCall("disable_tool", n, d)

GetToolsList ==
    /\ returned' = get_tools_list(tool_manager)
    /\ raised' = "none"
    /\ last' = Call("get_tools_list", "")
    /\ UNCHANGED <<storeVars, mgrVars, mainVars>>

MgrNext ==
    \/ \E env \in EnvInputs, out \in Outcomes(McpOutcomes, Mem0Outcomes, {"ok"}) :
          Initialize(env, out)
    \/ \E out \in Outcomes({"ok"}, {"ok"}, CloseOutcomes) : Shutdown(out)
    \/ \E out \in Outcomes(McpOutcomes, Mem0Outcomes, CloseOutcomes) : Reconnect(out)
    \/ \E tool \in MgrToolInputs : MgrAddTool(tool)
    \/ \E n \in MgrToolNames : MgrEnableTool(n)
    \/ \E n \in MgrToolNames : MgrDisableTool(n)
    \/ GetToolsList

\* A ToolManager constructed over an empty store.
ManagerInit ==
    /\ config_manager = AgentConfigManager
    /\ MgrInit(OsEnvirons)
    /\ CallInit

SpecManager == ManagerInit /\ [][MgrNext]_vars

\* ------------------------------------------------------- main.py: handler
\* initialize_config: load config.json when it exists, else build the
\* default configuration, bind the global and save it.  The result: whether
\* the global was bound, the store, the file and the exception.
initialize_config(file, osenv, io_out) ==
    IF file.exists
    THEN LET r == load_from_file(file)
         IN  [bound |-> r.exc = "none", s |-> r.val, file |-> file, exc |-> r.exc]
    ELSE LET s == create_default_config(osenv)
             w == save_to_file(s, file, io_out)
         IN  [bound |-> TRUE, s |-> s, file |-> w.file, exc |-> w.exc]

\* initialize_agent, lines 85-97: the Agent object built from the active
\* prompt's template ("" without one) and the tool handles
NewAgent(s, m) ==
    [instructions |-> IF get_active_prompt(s).val = <<>> THEN ""
                      ELSE get_active_prompt(s).val[1].template,
     tools |-> get_tools_list(m)]

\* mutant of the handler's step: no `async with _init_lock`, the lock is
\* never held
HandlerStep_unlocked(h, op, to, exc, release, did) ==
    /\ pc' = [pc EXCEPT ![h] = to]
    /\ raised' = exc
    /\ init_lock' = 0
    /\ last' = CallDid(op, "", did)

\* mutant of the handler's step: _init_lock.acquire() with a release() after
\* the block and no try/finally, so an exception leaves the lock held
HandlerStep_no_release_on_error(h, op, to, exc, release, did) ==
    /\ pc' = [pc EXCEPT ![h] = to]
    /\ raised' = exc
    /\ init_lock' = IF release /\ exc = "none" THEN 0 ELSE h
    /\ last' = CallDid(op, "", did)

\* One step of a handler invocation: where it goes, the exception that leaves
\* it, whether _init_lock is released, what it did to the collaborators.
HandlerStep(h, op, to, exc, release, did) ==
    /\ pc' = [pc EXCEPT ![h] = to]
    /\ raised' = exc
    /\ init_lock' = IF release THEN 0 ELSE h
    /\ last' = CallDid(op, "", did)

\* handler, lines 142-143: `async with _init_lock` once the lock is free,
\* then the test of _initialized; an initialised entrant leaves the block
HandlerEnter(h) ==
    /\ pc[h] = "start"
    /\ init_lock = 0
    /\ HandlerStep(h, "handler", IF initialized THEN "run_agent" ELSE "initialize_config",
                   "none", initialized, NoEffects)
    /\ returned' = <<>>
    /\ UNCHANGED <<storeVars, mgrVars, main_globals, agent, initialized, runs, config_file,
                   main_proc>>

\* handler, line 146: await initialize_config()
HandlerInitializeConfig(h, io_out) ==
    LET r == initialize_config(config_file, os_environ, io_out)
    IN  /\ pc[h] = "initialize_config"
        /\ runs' = [runs EXCEPT !.initialize_config = @ + 1]
        /\ config_manager' = IF r.bound THEN r.s ELSE config_manager
        /\ main_globals' = [main_globals EXCEPT !.config_manager = @ \/ r.bound]
        /\ config_file' = r.file
        /\ HandlerStep(h, "initialize_config",
                       IF r.exc = "none" THEN "initialize_tools" ELSE "failed",
                       r.exc, r.exc /= "none", NoEffects)
        /\ returned' = <<>>
        /\ UNCHANGED <<mgrVars, agent, initialized, main_proc>>

\* handler, line 148: await initialize_tools(), up to the await of
\* connect() inside ToolManager.initialize, or to its end when it does not
\* get there
HandlerInitializeTools(h, out) ==
    LET r0 == initialize_begin(ToolManager, config_manager, mcp_objects,
                               os_environ, os_environ, out.mcp)
        r == IF r0.stage = "connect" THEN r0 ELSE RunInitialize(r0, os_environ, out)
    IN  /\ pc[h] = "initialize_tools"
        /\ runs' = [runs EXCEPT !.initialize_tools = @ + 1]
        /\ IF ~main_globals.config_manager
           THEN /\ HandlerStep(h, "initialize_tools", "failed", "ValueError", TRUE, NoEffects)
                /\ UNCHANGED <<tool_manager, mcp_objects, main_globals>>
           ELSE /\ tool_manager' = r.m
                /\ mcp_objects' = r.objs
                /\ main_globals' = [main_globals EXCEPT !.tool_manager = TRUE]
                /\ HandlerStep(h, "initialize_tools",
                               IF r.exc /= "none" THEN "failed"
                               ELSE IF r.stage = "connect" THEN "connect"
                               ELSE "initialize_agent",
                               r.exc, r.exc /= "none", r.did)
        /\ returned' = <<>>
        /\ UNCHANGED <<config_manager, os_environ, agent, initialized, config_file,
                       main_proc>>

\* the rest of ToolManager.initialize once connect() has returned or raised
HandlerConnect(h, out) ==
    LET r == RunInitialize(MgrResult(tool_manager, mcp_objects, "none", "connect",
                                     [NoEffects EXCEPT !.mcp = "built"]),
                           os_environ, out)
    IN  /\ pc[h] = "connect"
        /\ tool_manager' = r.m
        /\ mcp_objects' = r.objs
        /\ HandlerStep(h, "connect", IF r.exc /= "none" THEN "failed" ELSE "initialize_agent",
                       r.exc, r.exc /= "none", r.did)
        /\ returned' = <<>>
        /\ UNCHANGED <<config_manager, os_environ, main_globals, agent, initialized,
                       runs, config_file, main_proc>>

\* mutant of the last initialisation step: _initialized = True in a finally,
\* set whether initialize_agent raised or not
HandlerInitializeAgent_flag_in_finally(h, agent_out) ==
    LET bad == ~main_globals.config_manager \/ ~main_globals.tool_manager
        exc == IF bad THEN "ValueError"
               ELSE IF get_active_prompt(config_manager).exc /= "none"
               THEN get_active_prompt(config_manager).exc
               ELSE IF agent_out = "raises" THEN "Exception" ELSE "none"
    IN  /\ pc[h] = "initialize_agent"
        /\ runs' = [runs EXCEPT !.initialize_agent = @ + 1]
        /\ agent' = IF exc = "none" THEN <<NewAgent(config_manager, tool_manager)>> ELSE agent
        /\ initialized' = TRUE
        /\ HandlerStep(h, "initialize_agent", IF exc = "none" THEN "run_agent" ELSE "failed",
                       exc, TRUE, NoEffects)
        /\ returned' = <<>>
        /\ UNCHANGED <<storeVars, mgrVars, main_globals, config_file, main_proc>>

\* handler, lines 150-151: await initialize_agent(), then _initialized = True
\* and the end of the `async with` block
HandlerInitializeAgent(h, agent_out) ==
    LET bad == ~main_globals.config_manager \/ ~main_globals.tool_manager
        exc == IF bad THEN "ValueError"
               ELSE IF get_active_prompt(config_manager).exc /= "none"
               THEN get_active_prompt(config_manager).exc
               ELSE IF agent_out = "raises" THEN "Exception" ELSE "none"
    IN  /\ pc[h] = "initialize_agent"
        /\ runs' = [runs EXCEPT !.initialize_agent = @ + 1]
        /\ agent' = IF exc = "none" THEN <<NewAgent(config_manager, tool_manager)>> ELSE agent
        /\ initialized' = (exc = "none")
        /\ HandlerStep(h, "initialize_agent", IF exc = "none" THEN "run_agent" ELSE "failed",
                       exc, TRUE, NoEffects)
        /\ returned' = <<>>
        /\ UNCHANGED <<storeVars, mgrVars, main_globals, config_file, main_proc>>

\* handler, line 154: run_agent, which raises ValueError without an agent
HandlerRunAgent(h) ==
    /\ pc[h] = "run_agent"
    /\ pc' = [pc EXCEPT ![h] = IF agent = <<>> THEN "failed" ELSE "served"]
    /\ raised' = IF agent = <<>> THEN "ValueError" ELSE "none"
    /\ returned' = agent
    /\ last' = Call("run_agent", "")
    /\ UNCHANGED <<storeVars, mgrVars, main_globals, agent, initialized, init_lock,
                   runs, config_file, main_proc>>

HandlerNext ==
    \/ \E h \in Handlers : HandlerEnter(h)
    \/ \E h \in Handlers, io_out \in {"ok", "raises"} : HandlerInitializeConfig(h, io_out)
    \/ \E h \in Handlers, out \in Outcomes(McpOutcomes, Mem0Outcomes, {"ok"}) :
          HandlerInitializeTools(h, out)
    \/ \E h \in Handlers, out \in Outcomes({"ok", "connect_raises"}, Mem0Outcomes, {"ok"}) :
          HandlerConnect(h, out)
    \/ \E h \in Handlers, agent_out \in {"ok", "raises"} : HandlerInitializeAgent(h, agent_out)
    \/ \E h \in Handlers : HandlerRunAgent(h)

\* The server at its first request: nothing initialised, config.json absent,
\* unreadable or holding an empty document.
HandlerInit ==
    /\ config_manager = AgentConfigManager
    /\ tool_manager = ToolManager
    /\ mcp_objects = <<>>
    /\ os_environ \in HandlerEnvirons
    /\ main_globals = [config_manager |-> FALSE, tool_manager |-> FALSE]
    /\ agent = <<>>
    /\ initialized = FALSE
    /\ init_lock = 0
    /\ pc = [h \in Handlers |-> "start"]
    /\ runs = [initialize_config |-> 0, initialize_tools |-> 0, initialize_agent |-> 0]
    /\ config_file \in {NoFile, BadFile, EmptyDocFile}
    /\ main_proc = MainServing
    /\ CallInit

SpecHandler == HandlerInit /\ [][HandlerNext]_vars

\* the steps of one invocation
HandlerOf(h) ==
    \/ HandlerEnter(h)
    \/ \E io_out \in {"ok", "raises"} : HandlerInitializeConfig(h, io_out)
    \/ \E out \in Outcomes(McpOutcomes, Mem0Outcomes, {"ok"}) : HandlerInitializeTools(h, out)
    \/ \E out \in Outcomes({"ok", "connect_raises"}, Mem0Outcomes, {"ok"}) :
          HandlerConnect(h, out)
    \/ \E agent_out \in {"ok", "raises"} : HandlerInitializeAgent(h, agent_out)
    \/ HandlerRunAgent(h)

\* The event loop runs every task that is ready and every awaited step
\* returns or raises: an invocation whose next step stays possible takes it.
SpecHandlerFair ==
    HandlerInit /\ [][HandlerNext]_vars /\ \A h \in Handlers : WF_vars(HandlerOf(h))

\* ---------------------------------------------------------- main.py: main
\* os.environ at startup: with and without each required credential
MainEnvirons ==
    {[k \in K \cup {"PATH"} |->
         CASE k = "PATH" -> "/usr/bin"
           [] k = "OPENROUTER_API_KEY" -> "sk-or-key"
           [] OTHER -> "m0-key"] :
        K \in SUBSET {"OPENROUTER_API_KEY", "MEM0_API_KEY"}}

\* the command line: --api-key and --mem0-api-key, <<>> when not given
CliArgs ==
    {[api_key |-> <<>>, mem0_api_key |-> <<>>],
     [api_key |-> <<"sk-or-cli">>, mem0_api_key |-> <<>>],
     [api_key |-> <<"sk-or-cli">>, mem0_api_key |-> <<"m0-cli">>]}

\* mutant of the credential test: MEM0_API_KEY is optional
main_check_mem0_optional(api_key, mem0_api_key) ==
    IF api_key = "" THEN "ValueError" ELSE "none"

\* main, lines 213-216: the two tests of the credentials
main_check(api_key, mem0_api_key) ==
    IF api_key = "" THEN "ValueError"
    ELSE IF mem0_api_key = "" THEN "ValueError"
    ELSE "none"

\* main, lines 179-216: parse_args with the environment as default, bind
\* the globals, test the credentials
main_start(cli, osenv) ==
    LET api_key == IF cli.api_key /= <<>> THEN cli.api_key[1]
                   ELSE GetEnv(osenv, "OPENROUTER_API_KEY", "")
        mem0_api_key == IF cli.mem0_api_key /= <<>> THEN cli.mem0_api_key[1]
                        ELSE GetEnv(osenv, "MEM0_API_KEY", "")
        exc == main_check(api_key, mem0_api_key)
    IN  [proc |-> [pc |-> IF exc = "none" THEN "checked" ELSE "raised",
                   api_key |-> api_key, mem0_api_key |-> mem0_api_key, config |-> FALSE],
         exc |-> exc]

\* cleanup_tools: shutdown of the global tool_manager when it is bound
cleanup_tools(bound, m, objs, close_out) ==
    IF bound THEN shutdown(m, objs, close_out)
    ELSE MgrResult(m, objs, "none", "return", NoEffects)

\* One step of main: where it goes and the exception that leaves it.
MainStep(op, proc, exc) ==
    /\ main_proc' = proc
    /\ raised' = exc
    /\ returned' = <<>>
    /\ last' = Call(op, "")

MainStart(cli) ==
    LET r == main_start(cli, os_environ)
    IN  /\ main_proc.pc = "import"
        /\ MainStep("main", r.proc, r.exc)
        /\ UNCHANGED <<storeVars, mgrVars, main_globals, agent, initialized, init_lock,
                       pc, runs, config_file>>

\* main, line 223: load_config() reads agent_config.json; io_out "raises"
\* is the exception of open() or json.load, which leaves main before the try
MainLoadConfig(io_out) ==
    /\ main_proc.pc = "checked"
    /\ MainStep("load_config",
                IF io_out = "raises" THEN [main_proc EXCEPT !.pc = "raised"]
                ELSE [main_proc EXCEPT !.pc = "loaded", !.config = TRUE],
                IF io_out = "raises" THEN "OSError" ELSE "none")
    /\ UNCHANGED <<storeVars, mgrVars, main_globals, agent, initialized, init_lock,
                   pc, runs, config_file>>

\* main, line 229: bindufy(config, handler) starts to serve
MainBindufy ==
    /\ main_proc.pc = "loaded"
    /\ MainStep("bindufy", [main_proc EXCEPT !.pc = "serving"], "none")
    /\ UNCHANGED <<storeVars, mgrVars, main_globals, agent, initialized, init_lock,
                   pc, runs, config_file>>

\* the serving layer calls handler while bindufy runs
MainServe ==
    /\ main_proc.pc = "serving"
    /\ HandlerNext

\* main, lines 230-232: bindufy returns or raises, at any point of the
\* invocations in flight, which are not resumed
MainStop ==
    /\ main_proc.pc = "serving"
    /\ MainStep("bindufy_exit", [main_proc EXCEPT !.pc = "cleanup"], "none")
    /\ UNCHANGED <<storeVars, mgrVars, main_globals, agent, initialized, init_lock,
                   pc, runs, config_file>>

\* main, line 233: asyncio.run(cleanup_tools())
MainCleanup(close_out) ==
    LET r == cleanup_tools(main_globals.tool_manager, tool_manager, mcp_objects, close_out)
    IN  /\ main_proc.pc = "cleanup"
        /\ tool_manager' = r.m
        /\ mcp_objects' = r.objs
        /\ main_proc' = [main_proc EXCEPT !.pc = "exited"]
        /\ raised' = r.exc
        /\ returned' = <<>>
        /\ last' = CallDid("cleanup_tools", "", r.did)
        /\ UNCHANGED <<config_manager, os_environ, main_globals, agent, initialized,
                       init_lock, pc, runs, config_file>>

MainNext ==
    \/ \E cli \in CliArgs : MainStart(cli)
    \/ \E io_out \in {"ok", "raises"} : MainLoadConfig(io_out)
    \/ MainBindufy
    \/ MainServe
    \/ MainStop
    \/ \E close_out \in CloseOutcomes : MainCleanup(close_out)

\* The process before main(): nothing initialised, config.json absent,
\* unreadable or holding an empty document.
MainProcessInit ==
    /\ config_manager = AgentConfigManager
    /\ tool_manager = ToolManager
    /\ mcp_objects = <<>>
    /\ os_environ \in MainEnvirons
    /\ main_globals = [config_manager |-> FALSE, tool_manager |-> FALSE]
    /\ agent = <<>>
    /\ initialized = FALSE
    /\ init_lock = 0
    /\ pc = [h \in Handlers |-> "start"]
    /\ runs = [initialize_config |-> 0, initialize_tools |-> 0, initialize_agent |-> 0]
    /\ config_file \in {NoFile, BadFile, EmptyDocFile}
    /\ main_proc = MainNotStarted
    /\ CallInit

SpecMain == MainProcessInit /\ [][MainNext]_vars

\* ===================================================== claims on the store
NoDuplicates(l) == \A i, j \in 1..Len(l) : l[i] = l[j] => i = j

\* l without every occurrence of n, order kept
Others(l, n) == SelectSeq(l, LAMBDA x : x /= n)

\* C1: from an empty store, after any sequence of add_tool, enable_tool and
\* disable_tool calls (remove_tool and the prompt calls included),
\* active_tools holds no name twice and every name in it is a key of tools.
C1_ActiveToolsWellFormed ==
    /\ NoDuplicates(config_manager.active_tools)
    /\ \A i \in 1..Len(config_manager.active_tools) :
          config_manager.active_tools[i] \in DOMAIN config_manager.tools

\* C1 witness: an enabled tool was added again under a name that is already
\* active, next to another active tool.
C1_Witness ==
    /\ last.op = "add_tool" /\ last.follows = "add_tool"
    /\ InList(config_manager.active_tools, last.arg)
    /\ config_manager.tools[last.arg].enabled
    /\ Len(config_manager.active_tools) >= 2

\* C7: on every store, a loaded one with stale or repeated names included,
\* get_active_tools returns tools[n] for exactly the names n of active_tools
\* that are keys of tools with enabled = TRUE, in active_tools order, and
\* raises nothing.
C7_GetActiveToolsFilters ==
    last.op = "get_active_tools" =>
        LET s == config_manager
            q == SelectSeq(s.active_tools,
                           LAMBDA n : n \in DOMAIN s.tools /\ s.tools[n].enabled)
        IN  /\ raised = "none"
            /\ Len(returned) = Len(q)
            /\ \A i \in 1..Len(q) : returned[i] = s.tools[q[i]]

\* C7 witness: get_active_tools ran on a store whose active_tools holds a
\* stale name and returned a non-empty, shorter list.
C7_Witness ==
    /\ last.op = "get_active_tools"
    /\ \E i \in 1..Len(config_manager.active_tools) :
          config_manager.active_tools[i] \notin DOMAIN config_manager.tools
    /\ Len(returned) >= 1
    /\ Len(returned) < Len(config_manager.active_tools)

\* the step is a call of op on a name that is no key of tools
UnknownToolCall(op) == last'.op = op /\ last'.arg \notin DOMAIN config_manager.tools

\* C8 as claimed: on every store and for every name that is no key of tools,
\* remove_tool, enable_tool and disable_tool leave the store unchanged and do
\* not raise; set_active_prompt on a name not in prompts leaves it unchanged.
C8_UnknownNameIsNoOp ==
    [][(\/ UnknownToolCall("remove_tool")
        \/ UnknownToolCall("enable_tool")
        \/ UnknownToolCall("disable_tool")
        \/ (last'.op = "set_active_prompt"
            /\ last'.arg \notin DOMAIN config_manager.prompts))
       => (config_manager' = config_manager /\ raised' = "none")]_vars

\* l2 is l1 with the first occurrence of n deleted (l1 itself when n is absent)
FirstOccurrenceDeleted(l1, l2, n) ==
    IF InList(l1, n)
    THEN \E k \in 1..Len(l1) :
            /\ l1[k] = n
            /\ \A j \in 1..(k - 1) : l1[j] /= n
            /\ Len(l2) = Len(l1) - 1
            /\ \A j \in 1..Len(l2) : l2[j] = IF j < k THEN l1[j] ELSE l1[j + 1]
    ELSE l2 = l1

\* C8 amended: for a name that is no key of tools, enable_tool leaves the
\* store unchanged; remove_tool and disable_tool leave tools, prompts and
\* active_prompt unchanged and change active_tools only by deleting the first
\* occurrence of the name when it is a stale entry; none of them raises;
\* set_active_prompt on a name not in prompts leaves the store unchanged.
C8_UnknownNameOnlyDropsStaleEntry ==
    [][/\ (UnknownToolCall("remove_tool") \/ UnknownToolCall("disable_tool"))
          => /\ raised' = "none"
             /\ config_manager'.tools = config_manager.tools
             /\ config_manager'.prompts = config_manager.prompts
             /\ config_manager'.active_prompt = config_manager.active_prompt
             /\ FirstOccurrenceDeleted(config_manager.active_tools,
                                       config_manager'.active_tools, last'.arg)
       /\ UnknownToolCall("enable_tool")
          => (config_manager' = config_manager /\ raised' = "none")
       /\ (last'.op = "set_active_prompt"
           /\ last'.arg \notin DOMAIN config_manager.prompts)
          => (config_manager' = config_manager /\ raised' = "none")]_vars

\* C8 witness: remove_tool returned on a store that registers no tool at all
\* while active_tools still holds a (stale) name.
C8_Witness ==
    /\ last.op = "remove_tool"
    /\ raised = "none"
    /\ DOMAIN config_manager.tools = {}
    /\ Len(config_manager.active_tools) >= 1

\* C9: for a name in tools and in active_tools, disable_tool(name) followed
\* by enable_tool(name) leaves name last in active_tools with the other
\* names in their former order, and the definition stays in tools.  Checked
\* on every disable_tool step (with enable_tool applied to the state it
\* leaves) and on every enable_tool step that directly follows one.
C9_DisableEnableAppends ==
    [][\A n \in ToolNames :
        /\ (/\ last'.op = "disable_tool" /\ last'.arg = n
            /\ n \in DOMAIN config_manager.tools
            /\ InList(config_manager.active_tools, n))
           => LET after == enable_tool(config_manager', n).s
              IN  /\ n \in DOMAIN config_manager'.tools
                  /\ ~InList(config_manager'.active_tools, n)
                  /\ config_manager'.active_tools
                        = Others(config_manager.active_tools, n)
                  /\ n \in DOMAIN after.tools
                  /\ after.active_tools
                        = Append(Others(config_manager.active_tools, n), n)
        /\ (/\ last'.op = "enable_tool" /\ last'.arg = n
            /\ last.op = "disable_tool" /\ last.arg = n
            /\ n \in DOMAIN config_manager.tools)
           => /\ n \in DOMAIN config_manager'.tools
              /\ config_manager'.tools[n].enabled
              /\ config_manager'.active_tools
                    = Append(Others(config_manager.active_tools, n), n)]_vars

\* C9 witness: enable_tool directly followed disable_tool of the same
\* registered name, which is now last of three active names.
C9_Witness ==
    /\ last.op = "enable_tool" /\ last.follows = "disable_tool"
    /\ last.arg \in DOMAIN config_manager.tools
    /\ Len(config_manager.active_tools) = 3
    /\ config_manager.active_tools[3] = last.arg

\* C18: get_active_prompt never raises; it returns prompts[active_prompt]
\* when active_prompt is a key of prompts and None otherwise, and the agent
\* built over the store then gets that prompt's template as instructions,
\* the empty string when there is none.
C18_GetActivePromptNeverFails ==
    last.op = "get_active_prompt" =>
        LET s == config_manager
        IN  /\ raised = "none"
            /\ IF s.active_prompt \in DOMAIN s.prompts
               THEN /\ returned = <<s.prompts[s.active_prompt]>>
                    /\ NewAgent(s, tool_manager).instructions
                          = s.prompts[s.active_prompt].template
               ELSE /\ returned = <<>>
                    /\ NewAgent(s, tool_manager).instructions = ""

\* C18 witness: get_active_prompt returned None on a store that registers a
\* prompt under another name than active_prompt.
C18_Witness ==
    /\ last.op = "get_active_prompt"
    /\ returned = <<>>
    /\ raised = "none"
    /\ DOMAIN config_manager.prompts /= {}
    /\ config_manager.active_prompt \notin DOMAIN config_manager.prompts

\* C19: for every populated store s, from_dict(to_dict(s)) is s field for
\* field, and load_from_file of what save_to_file wrote gives s back: tools
\* with every ToolConfig field, prompts, the order of active_tools,
\* active_prompt, model_id and debug.
C19_RoundTrip ==
    [][/\ (last'.op = "save_to_file" /\ raised' = "none")
          => /\ from_dict(to_dict(config_manager)) = [val |-> config_manager, exc |-> "none"]
             /\ config_file'.exists /\ config_file'.valid
             /\ load_from_file(config_file') = [val |-> config_manager, exc |-> "none"]
       /\ (/\ last.op = "save_to_file" /\ raised = "none"
           /\ last'.op = "load_from_file")
          => (raised' = "none" /\ config_manager' = config_manager)]_vars

\* C19 witness: load_from_file directly followed save_to_file of a store
\* with a disabled tool that has an environment, two active names, a prompt,
\* another model_id and debug set.
C19_Witness ==
    /\ last.op = "load_from_file" /\ last.follows = "save_to_file"
    /\ raised = "none"
    /\ \E n \in DOMAIN config_manager.tools :
          /\ ~config_manager.tools[n].enabled
          /\ DOMAIN config_manager.tools[n].environment /= {}
    /\ Len(config_manager.active_tools) = 2
    /\ config_manager.active_tools[1] /= config_manager.active_tools[2]
    /\ DOMAIN config_manager.prompts /= {}
    /\ config_manager.model_id /= "openai/gpt-5"
    /\ config_manager.debug

\* C23: load_from_file / from_dict of a document that omits optional fields
\* does not raise; a tool entry without enabled, environment, timeout or
\* description gets True, {}, 30 and ""; a prompt entry without enabled or
\* version gets True and "1.0"; a document without tools, prompts,
\* active_tools or active_prompt gets {}, {}, [] and "default"; a field that
\* is written keeps its value and a key that names no field is not taken up.
C23_MissingFieldsTakeDefaults ==
    last.op = "load_from_file" =>
        LET doc == config_file.doc.v
            s == config_manager
            Has(k) == k \in DOMAIN doc
        IN  /\ raised = "none"
            /\ DOMAIN s = {"tools", "prompts", "active_tools", "active_prompt",
                           "model_id", "debug"}
            /\ ~Has("tools") => DOMAIN s.tools = {}
            /\ ~Has("prompts") => DOMAIN s.prompts = {}
            /\ ~Has("active_tools") => s.active_tools = <<>>
            /\ ~Has("active_prompt") => s.active_prompt = "default"
            /\ Has("active_prompt") => s.active_prompt = doc["active_prompt"].v
            /\ Has("tools") =>
                  /\ DOMAIN s.tools = DOMAIN doc["tools"].v
                  /\ \A n \in DOMAIN doc["tools"].v :
                        LET e == doc["tools"].v[n].v
                            tool == s.tools[n]
                        IN  /\ tool.name = e["name"].v /\ tool.command = e["command"].v
                            /\ tool.enabled =
                                  IF "enabled" \in DOMAIN e THEN e["enabled"].v ELSE TRUE
                            /\ DOMAIN tool.environment =
                                  IF "environment" \in DOMAIN e
                                  THEN DOMAIN e["environment"].v ELSE {}
                            /\ tool.timeout =
                                  IF "timeout" \in DOMAIN e THEN e["timeout"].v ELSE 30
                            /\ tool.description =
                                  IF "description" \in DOMAIN e
                                  THEN e["description"].v ELSE ""
            /\ Has("prompts") =>
                  /\ DOMAIN s.prompts = DOMAIN doc["prompts"].v
                  /\ \A n \in DOMAIN doc["prompts"].v :
                        LET e == doc["prompts"].v[n].v
                            prompt == s.prompts[n]
                        IN  /\ prompt.name = e["name"].v
                            /\ prompt.template = e["template"].v
                            /\ prompt.enabled =
                                  IF "enabled" \in DOMAIN e THEN e["enabled"].v ELSE TRUE
                            /\ prompt.version =
                                  IF "version" \in DOMAIN e THEN e["version"].v ELSE "1.0"

\* C23 witness: a document with an unknown key and no active_prompt, whose
\* tool entry has neither enabled nor timeout and whose prompt entry has no
\* version, was loaded.
C23_Witness ==
    /\ last.op = "load_from_file"
    /\ raised = "none"
    /\ DOMAIN config_file.doc.v = {"tools", "prompts", "theme"}
    /\ DOMAIN config_file.doc.v["tools"].v["firecrawl"].v = {"name", "command", "description"}
    /\ DOMAIN config_file.doc.v["prompts"].v["custom"].v = {"name", "template"}
    /\ config_manager.tools["firecrawl"].enabled
    /\ config_manager.tools["firecrawl"].timeout = 30
    /\ config_manager.prompts["custom"].version = "1.0"
    /\ config_manager.active_prompt = "default"
    /\ config_manager.active_tools = <<>>

\* C24 as claimed: for every registered tool, the name is in active_tools
\* exactly when the tool's enabled flag is true.
C24_ActiveIffEnabled ==
    \A n \in DOMAIN config_manager.tools :
        InList(config_manager.active_tools, n) <=> config_manager.tools[n].enabled

\* =============================================== claims on the ToolManager
\* C3 as claimed, on the states a shutdown leaves: the manager is not
\* connected, both handles are cleared and get_tools_list returns the empty
\* list.
C3_ShutdownClearsHandles ==
    last.op = "shutdown"
        => /\ ~is_connected(tool_manager)
           /\ tool_manager.mcp_tools = 0
           /\ tool_manager.mem0_tools = 0
           /\ get_tools_list(tool_manager) = <<>>

\* C4 as claimed: when the MultiMCPTools step of initialize raises, in the
\* constructor or in connect(), initialize returns without an exception, the
\* manager is connected and holds no MultiMCPTools handle.
C4_FailedConnectionLeavesNoHandle ==
    (last.op = "initialize" /\ last.did.mcp \in {"build_raised", "connect_raised"})
        => /\ raised = "none"
           /\ is_connected(tool_manager)
           /\ \A i \in 1..Len(get_tools_list(tool_manager)) :
                 get_tools_list(tool_manager)[i].kind /= "MultiMCPTools"

\* C5 as claimed: with zero active tools initialize returns without an
\* exception, the manager becomes connected and get_tools_list is empty.
C5_NoToolsBecomesConnected ==
    (last.op = "initialize" /\ get_active_tools(config_manager).val = <<>>)
        => /\ raised = "none"
           /\ is_connected(tool_manager)
           /\ get_tools_list(tool_manager) = <<>>

\* C5 amended: with zero active tools, initialize on a manager that is not
\* connected returns without an exception and without touching a
\* collaborator; the manager stays not connected and both handles stay as
\* they were, so get_tools_list of a manager that never held a handle is
\* empty.
C5_NoToolsStaysDisconnected ==
    [][(/\ last'.op = "initialize"
        /\ get_active_tools(config_manager).val = <<>>
        /\ ~is_connected(tool_manager))
       => /\ raised' = "none"
          /\ ~is_connected(tool_manager')
          /\ tool_manager' = tool_manager
          /\ mcp_objects' = mcp_objects
          /\ last'.did = [NoEffects EXCEPT !.early = "no_tools"]
          /\ (tool_manager = ToolManager => get_tools_list(tool_manager') = <<>>)]_vars

\* C5 witness: initialize returned at "No tools configured" on a store that
\* registers tools, all of them disabled.
C5_Witness ==
    /\ last.op = "initialize" /\ last.did.early = "no_tools"
    /\ DOMAIN config_manager.tools /= {}
    /\ ~is_connected(tool_manager)
    /\ get_tools_list(tool_manager) = <<>>

\* C6 as claimed: an initialize call that directly follows an initialize
\* call which constructed a MultiMCPTools or a Mem0Tools object performs no
\* connection side effect of its own: it constructs and connects nothing,
\* changes no handle and raises nothing.
C6_SecondInitializeIsNoOp ==
    [][(/\ last.op = "initialize" /\ last'.op = "initialize"
        /\ (last.did.mcp /= "-" \/ last.did.mem0 /= "-"))
       => /\ last'.did.mcp = "-"
          /\ last'.did.mem0 = "-"
          /\ tool_manager' = tool_manager
          /\ mcp_objects' = mcp_objects
          /\ raised' = "none"]_vars

\* C10: shutdown never raises and always leaves the manager not connected,
\* also when close() raises and when the manager was not connected before.
C10_ShutdownAlwaysDisconnects ==
    last.op = "shutdown" => (raised = "none" /\ ~is_connected(tool_manager))

\* C10 witness: a shutdown during which close() raised.
C10_Witness ==
    /\ last.op = "shutdown" /\ last.did.close = "raised"
    /\ raised = "none"
    /\ ~is_connected(tool_manager)

\* C12 as claimed, on the initialize calls in which the Mem0Tools constructor
\* raised: the failure of the memory handle does not leave initialize as an
\* exception, the manager becomes connected, and a MultiMCPTools connection
\* that succeeded is kept.
C12_Mem0FailureIsIndependent ==
    (last.op = "initialize" /\ last.did.mem0 = "raised")
        => /\ raised = "none"
           /\ is_connected(tool_manager)
           /\ (last.did.mcp = "connected"
                  => /\ tool_manager.mcp_tools /= 0
                     /\ mcp_objects[tool_manager.mcp_tools].state = "connected")

\* C14 as claimed: reconnect on a connected manager closes the existing
\* MultiMCPTools connection once and initializes again; the MultiMCPTools
\* handle exposed afterwards is not the one that was closed, and when the
\* reconnect directly follows the initialize that connected the manager, the
\* new MultiMCPTools gets the environment that initialize passed.
C14_ReconnectReplacesConnection ==
    [][(last'.op = "reconnect" /\ is_connected(tool_manager))
       => /\ (tool_manager.mcp_tools /= 0 => last'.did.close \in {"closed", "raised"})
          /\ (tool_manager'.mcp_tools /= 0
                 => tool_manager'.mcp_tools /= tool_manager.mcp_tools)
          /\ (last.op = "initialize" /\ last.did.args /= <<>> /\ last'.did.args /= <<>>)
                 => last'.did.args[1].env = last.did.args[1].env]_vars

\* C15 as claimed: the env argument of the MultiMCPTools constructor holds
\* every key of every selected tool's environment with a selected tool's
\* value for it (the last such tool's, on conflict).
C15_ToolEnvironmentsMerged ==
    (last.op \in {"initialize", "reconnect"} /\ last.did.args /= <<>>)
        => LET selected == SelectSeq(get_active_tools(config_manager).val,
                                     LAMBDA tool : tool.command /= "")
               env == last.did.args[1].env
           IN  \A i \in 1..Len(selected) :
                  \A k \in DOMAIN selected[i].environment :
                     /\ k \in DOMAIN env
                     /\ \E j \in i..Len(selected) :
                           /\ k \in DOMAIN selected[j].environment
                           /\ env[k] = selected[j].environment[k]
                           /\ \A l \in (j + 1)..Len(selected) :
                                 k \notin DOMAIN selected[l].environment

\* C16 as claimed: timeout_seconds of the MultiMCPTools constructor is the
\* largest timeout among the selected tools, the active enabled tools with a
\* non-empty command; a tool with an empty command has no influence on it.
C16_TimeoutIsMaxOverSelected ==
    (last.op \in {"initialize", "reconnect"} /\ last.did.args /= <<>>)
        => LET selected == SelectSeq(get_active_tools(config_manager).val,
                                     LAMBDA tool : tool.command /= "")
               timeout == last.did.args[1].timeout_seconds
           IN  /\ \E i \in 1..Len(selected) : selected[i].timeout = timeout
               /\ \A i \in 1..Len(selected) : selected[i].timeout <= timeout

\* C17: ToolManager.add_tool, enable_tool and disable_tool change the store
\* exactly as the store's own mutator does and nothing else: no constructor,
\* connect() or close() is called, and _is_connected, mcp_tools and
\* mem0_tools stay as they were, connected or not.
C17_ManagerMutatorsOnlyTouchStore ==
    [][/\ last'.op \in {"add_tool", "enable_tool", "disable_tool"}
          => /\ tool_manager' = tool_manager
             /\ mcp_objects' = mcp_objects
             /\ last'.did = NoEffects
             /\ raised' = "none"
       /\ last'.op = "add_tool"
          => \E tool \in MgrToolInputs :
                /\ tool.name = last'.arg
                /\ config_manager' = add_tool(config_manager, tool).s
       /\ last'.op = "enable_tool"
          => config_manager' = enable_tool(config_manager, last'.arg).s
       /\ last'.op = "disable_tool"
          => config_manager' = disable_tool(config_manager, last'.arg).s]_vars

\* C17 witness: enable_tool put a second tool into active_tools of a
\* connected manager whose MultiMCPTools connection stays open.
C17_Witness ==
    /\ last.op = "enable_tool"
    /\ is_connected(tool_manager)
    /\ tool_manager.mcp_tools /= 0
    /\ mcp_objects[tool_manager.mcp_tools].state = "connected"
    /\ Len(config_manager.active_tools) = 2
    /\ config_manager.active_tools[2] = last.arg

\* C20: initialize called on a manager that is not connected, over a store
\* with zero active tools, leaves it not connected: is_connected() is False
\* afterwards, nothing is raised, and no MultiMCPTools or Mem0Tools object
\* is constructed or connected.
C20_NoToolsRemainsDisconnected ==
    [][(/\ last'.op = "initialize"
        /\ ~is_connected(tool_manager)
        /\ get_active_tools(config_manager).val = <<>>)
       => /\ ~is_connected(tool_manager')
          /\ raised' = "none"
          /\ last'.did.mcp = "-" /\ last'.did.mem0 = "-" /\ last'.did.args = <<>>
          /\ Len(mcp_objects') = Len(mcp_objects)]_vars

\* C20 witness: initialize returned on an empty store of a process that has
\* MEM0_API_KEY, and the manager is still not connected and without handle.
C20_Witness ==
    /\ last.op = "initialize" /\ last.did.early = "no_tools"
    /\ HasMem0Key(os_environ)
    /\ DOMAIN config_manager.tools = {}
    /\ ~is_connected(tool_manager)
    /\ tool_manager.mem0_tools = 0

\* C22 as claimed: a shutdown that directly follows a shutdown which closed
\* the multiplexed connection finds no handle and does not call close again.
C22_SecondShutdownDoesNotClose ==
    [][(last.op = "shutdown" /\ last.did.close = "closed" /\ last'.op = "shutdown")
          => last'.did.close = "-"]_vars

\* ================================================== claims on the handler
\* C2 as claimed: over the whole run initialize_config, initialize_tools and
\* initialize_agent are each executed at most once, whatever the number of
\* handler invocations that arrive before initialisation.
C2_InitialisationAtMostOnce ==
    /\ runs.initialize_config <= 1
    /\ runs.initialize_tools <= 1
    /\ runs.initialize_agent <= 1

\* C11: in the first-time path of handler, initialize_config has returned
\* before initialize_tools begins, and ToolManager.initialize (its awaited
\* connect() included) has returned before initialize_agent reads
\* get_tools_list; whatever the interleaving, no invocation is inside
\* initialize while another constructs the agent, and the agent holds the
\* handle list that initialize left.
C11_InitialisationOrdered ==
    /\ \A h \in Handlers :
          /\ pc[h] \in {"initialize_config", "initialize_tools", "connect", "initialize_agent"}
                => init_lock = h
          /\ pc[h] \in {"initialize_tools", "connect", "initialize_agent"}
                => (main_globals.config_manager /\ runs.initialize_config >= 1)
          /\ pc[h] = "initialize_agent"
                => /\ main_globals.tool_manager
                   /\ runs.initialize_tools >= 1
                   /\ \A g \in Handlers : pc[g] \notin {"initialize_tools", "connect"}
    /\ last.op = "initialize_agent"
          => \A g \in Handlers : pc[g] \notin {"initialize_config", "initialize_tools", "connect"}
    /\ agent /= <<>> => agent[1].tools = get_tools_list(tool_manager)

\* C11 witness: the agent was constructed over a connected MultiMCPTools
\* handle and a Mem0Tools handle while another invocation waits at the lock.
C11_Witness ==
    /\ last.op = "initialize_agent"
    /\ agent /= <<>>
    /\ Len(agent[1].tools) = 2
    /\ mcp_objects[tool_manager.mcp_tools].state = "connected"
    /\ \E g \in Handlers : pc[g] = "start"

\* C13: an invocation whose ToolManager.initialize lost the MultiMCPTools
\* connection (the constructor or connect() raised) goes on to construct the
\* agent; an invocation that reaches run_agent is served by the agent; and
\* once _initialized is set no later invocation re-runs an initialisation
\* step or fails.
C13_ServedDespiteConnectionFailure ==
    [][\A h \in Handlers :
        /\ (/\ pc[h] \in {"initialize_tools", "connect"} /\ pc'[h] /= pc[h]
            /\ last'.did.mcp \in {"build_raised", "connect_raised"}
            /\ last'.did.mem0 /= "raised")
           => (pc'[h] = "initialize_agent" /\ raised' = "none" /\ init_lock' = h)
        /\ (pc[h] = "run_agent" /\ pc'[h] /= pc[h])
           => (pc'[h] = "served" /\ agent /= <<>> /\ returned' = agent /\ raised' = "none")
        /\ initialized
           => /\ initialized' /\ runs' = runs /\ agent' = agent
              /\ tool_manager' = tool_manager
              /\ (pc'[h] /= pc[h] => pc'[h] \in {"run_agent", "served"})]_vars

\* C13 witness: every invocation was served although connect() had raised
\* for the only MultiMCPTools object, and each initialisation step ran once.
C13_Witness ==
    /\ \A h \in Handlers : pc[h] = "served"
    /\ runs = [initialize_config |-> 1, initialize_tools |-> 1, initialize_agent |-> 1]
    /\ get_active_tools(config_manager).val /= <<>>
    /\ Len(mcp_objects) = 1
    /\ mcp_objects[1].state = "built"
    /\ returned = agent

InitSteps == {"initialize_config", "initialize_tools", "connect", "initialize_agent"}

\* C26: under every interleaving of the handler invocations, an invocation
\* is past the init gate (at run_agent or served) only when _initialized is
\* True and the agent exists, so run_agent never raises for a missing agent;
\* and when an initialisation step raises, the invocation ends with that
\* exception, _init_lock is free and _initialized is False.
C26_NoRunWithoutAgent ==
    [][\A h \in Handlers :
          /\ pc'[h] \in {"run_agent", "served"} => (initialized' /\ agent' /= <<>>)
          /\ pc[h] = "run_agent" => pc'[h] \in {"run_agent", "served"}
          /\ (pc[h] \in InitSteps /\ pc'[h] = "failed")
                => /\ raised' /= "none"
                   /\ init_lock' = 0
                   /\ ~initialized']_vars

\* C26 witness: one invocation ended with the exception of an initialisation
\* step, a later one initialised the agent and is at run_agent.
C26_Witness ==
    \E h, g \in Handlers :
        /\ pc[h] = "failed"
        /\ pc[g] = "run_agent"
        /\ last.op = "initialize_agent"
        /\ initialized
        /\ agent /= <<>>
        /\ init_lock = 0

\* C27: the init gate never deadlocks: when every step of an invocation that
\* can run does run, every invocation ends, served or with an error, and
\* _init_lock ends up free for good.
C27_EveryInvocationEnds ==
    /\ \A h \in Handlers : <>(pc[h] \in {"served", "failed"})
    /\ <>[](init_lock = 0)

\* C27 witness: every invocation went through the guarded block twice over,
\* one left it by an exception and one was served, and the lock is free.
C27_Witness ==
    /\ \A h \in Handlers : pc[h] \in {"served", "failed"}
    /\ \E h \in Handlers : pc[h] = "failed"
    /\ \E h \in Handlers : pc[h] = "served"
    /\ runs.initialize_config >= 2
    /\ init_lock = 0

\* ===================================================== claims on main()
\* C21: when api_key or mem0_api_key is missing at startup, main raises
\* ValueError before load_config and before bindufy: the base configuration
\* is never read, no handler invocation starts, no ToolManager is built and
\* no MultiMCPTools object is constructed in that run.
C21_MissingCredentialStopsStartup ==
    (main_proc.pc /= "import" /\ (main_proc.api_key = "" \/ main_proc.mem0_api_key = ""))
        => /\ main_proc.pc = "raised"
           /\ raised = "ValueError"
           /\ ~main_proc.config
           /\ \A h \in Handlers : pc[h] = "start"
           /\ runs = [initialize_config |-> 0, initialize_tools |-> 0, initialize_agent |-> 0]
           /\ ~main_globals.config_manager /\ ~main_globals.tool_manager
           /\ mcp_objects = <<>> /\ tool_manager = ToolManager
           /\ agent = <<>>

\* C21 witness: main raised for a missing mem0_api_key although the model
\* key was given on the command line.
C21_Witness ==
    /\ main_proc.pc = "raised"
    /\ raised = "ValueError"
    /\ main_proc.api_key = "sk-or-cli"
    /\ main_proc.mem0_api_key = ""

\* C25 as claimed: once cleanup_tools has run, every MultiMCPTools object
\* whose connect() succeeded has been closed, or is the one the global
\* tool_manager holds and its close() was called by the cleanup and raised.
C25_OpenedConnectionsClosedAtExit ==
    main_proc.pc = "exited" =>
        \A i \in DOMAIN mcp_objects :
            mcp_objects[i].state = "connected"
                => /\ main_globals.tool_manager
                   /\ tool_manager.mcp_tools = i
                   /\ last.did.close = "raised"

====
